---- MODULE Spec2Model ----
(***************************************************************************)
(* Model of the cleaning scheduler (cleaning_script.py, reset_csv.py).     *)
(*                                                                         *)
(* The catalog is the table of 'cleaning schedule.csv': a sequence of row  *)
(* records.  Cells are kept as the strings pandas hands to the script:     *)
(*   frequency  the raw cell text (case and padding kept),                 *)
(*   Who        'Who can do this', the set of the comma separated names of *)
(*              the cell; {} is the empty cell (NaN),                      *)
(*   Last       'Last Assigned Date', a record [kind, day]: kind "nan" is  *)
(*              the empty cell, "text" a cell that is no date, "iso" the   *)
(*              ISO text of calendar day `day`,                            *)
(*   Assigned   'Currently Assigned To'; "" is the empty cell (NaN).       *)
(* Calendar days are integers; day 0 is a Monday.                          *)
(*                                                                         *)
(* Google Keep is the account's notes held by the store and the copy of    *)
(* them in the client object `keep` of a run.                              *)
(***************************************************************************)
EXTENDS Integers, Sequences, FiniteSets, TLC

\* csv            the table stored in the CSV file
\* csv_top        the two leading lines of the CSV file
\* df             the table in memory (<<>> outside a run)
\* today          the calendar day of the run
\* pc             the position of the script
\* tasks_to_push  the push list of the run
\* top_lines      the leading lines read by the run (<<>> outside a run)
\* ret            the value returned by a direct call of is_due
\* environ        the persons for whom a NOTE_<PERSON> variable is set
\* store          the notes of the account as Google Keep holds them
\* keep           the notes in the client object of the run
\* calls          the calls of the Keep client made by the run, in order
\* groups         the persons the sync loop has still to visit
\* run_no         the number of the run among the runs of the day
\* prev           the end of the run before, on the same day
VARIABLES csv, csv_top, df, top_lines, today, pc, tasks_to_push, ret,
          environ, store, keep, calls, groups, run_no, prev

vars == <<csv, csv_top, df, top_lines, today, pc, tasks_to_push, ret,
          environ, store, keep, calls, groups, run_no, prev>>

-----------------------------------------------------------------------------
(* Bounds of the model *)

\* rows of a catalog in the daily-run specification
MaxRows == 2
\* the last calendar day on which the daily run is started
LastDay == 15
\* rows of a catalog in the assignment specification
MaxAssignRows == 3
\* oldest last-assigned date tried by the is_due specification, in days
MaxAge == 29
\* furthest future last-assigned date tried, in days after today
MaxSkew == 29
\* runs of the script on one day in the one-day specification
MaxRuns == 2
\* rows of a catalog in the one-day specification
MaxDayRows == 2
\* the last calendar day on which a run of the cadence specification starts
LastCadenceDay == 35

-----------------------------------------------------------------------------
(* Configuration and cell values *)

START_OF_WEEK_DAY == 0

People == {"Alice", "Bob"}

\* sorted(): the order of str on the identifiers
PeopleOrder == <<"Alice", "Bob">>

AreaNames == <<"Kitchen", "Bathroom", "Hall">>

Activities == <<"Wipe counters", "Scrub tub", "Mop floor", "Dust shelves">>

\* the two leading lines of the CSV file
TopLines == <<"Cleaning schedule", "Edit the rows below">>

FreqCells ==
    {"Daily", "daily", "Daily ", "Weekly", " weekly", "Fortnightly", "Monthly", "Yearly"}

NaNDate == [kind |-> "nan", day |-> 0]

TextDate == [kind |-> "text", day |-> 0]

\* datetime.date.isoformat
isoformat(d) == [kind |-> "iso", day |-> d]

\* the value '' that reset_csv puts into the date column
EmptyStr == [kind |-> "empty", day |-> 0]

\* DataFrame.to_csv: NaN and '' are both written as the empty cell
to_csv(d) ==
    [i \in DOMAIN d |->
        [d[i] EXCEPT !.Last = IF @.kind \in {"nan", "empty"} THEN NaNDate ELSE @]]

\* str.lower on the frequency cells
lower(s) ==
    CASE s = "Daily" -> "daily"
      [] s = "Daily " -> "daily "
      [] s = "Weekly" -> "weekly"
      [] s = "Fortnightly" -> "fortnightly"
      [] s = "Monthly" -> "monthly"
      [] s = "Yearly" -> "yearly"
      [] OTHER -> s

\* str.strip on the lower-cased frequency cells
strip(s) ==
    CASE s = "daily " -> "daily"
      [] s = " weekly" -> "weekly"
      [] OTHER -> s

\* pd.isna on a string cell
isna(cell) == cell = ""

weekday(d) == d % 7

-----------------------------------------------------------------------------
(* is_due *)

get_date_from_str(cell) ==
    IF cell.kind = "iso" THEN <<cell.day>> ELSE <<>>

\* variant of is_due: the thresholds are strict (> for >=)
is_due_GtMutant(row, t) ==
    LET last_assigned == get_date_from_str(row.Last)
        freq == strip(lower(row.frequency))
    IN  IF freq = "daily" THEN [due |-> TRUE, reason |-> "Daily task"]
        ELSE IF last_assigned = <<>>
        THEN [due |-> TRUE, reason |-> "Never assigned before"]
        ELSE LET days_since == t - last_assigned[1]
             IN  IF freq = "weekly" /\ days_since > 7
                 THEN [due |-> TRUE, reason |-> "Weekly"]
                 ELSE IF freq = "fortnightly" /\ days_since > 14
                 THEN [due |-> TRUE, reason |-> "Fortnightly"]
                 ELSE IF freq = "monthly" /\ days_since > 28
                 THEN [due |-> TRUE, reason |-> "Monthly"]
                 ELSE [due |-> FALSE, reason |-> "Not due yet"]

\* variant of is_due: days_since is the absolute distance of the two dates
is_due_AbsMutant(row, t) ==
    LET last_assigned == get_date_from_str(row.Last)
        freq == strip(lower(row.frequency))
    IN  IF freq = "daily" THEN [due |-> TRUE, reason |-> "Daily task"]
        ELSE IF last_assigned = <<>>
        THEN [due |-> TRUE, reason |-> "Never assigned before"]
        ELSE LET d == t - last_assigned[1]
                 days_since == IF d < 0 THEN 0 - d ELSE d
             IN  IF freq = "weekly" /\ days_since >= 7
                 THEN [due |-> TRUE, reason |-> "Weekly"]
                 ELSE IF freq = "fortnightly" /\ days_since >= 14
                 THEN [due |-> TRUE, reason |-> "Fortnightly"]
                 ELSE IF freq = "monthly" /\ days_since >= 28
                 THEN [due |-> TRUE, reason |-> "Monthly"]
                 ELSE [due |-> FALSE, reason |-> "Not due yet"]

is_due(row, t) ==
    LET last_assigned == get_date_from_str(row.Last)
        freq == strip(lower(row.frequency))
    IN  IF freq = "daily" THEN [due |-> TRUE, reason |-> "Daily task"]
        ELSE IF last_assigned = <<>>
        THEN [due |-> TRUE, reason |-> "Never assigned before"]
        ELSE LET days_since == t - last_assigned[1]
             IN  IF freq = "weekly" /\ days_since >= 7
                 THEN [due |-> TRUE, reason |-> "Weekly"]
                 ELSE IF freq = "fortnightly" /\ days_since >= 14
                 THEN [due |-> TRUE, reason |-> "Fortnightly"]
                 ELSE IF freq = "monthly" /\ days_since >= 28
                 THEN [due |-> TRUE, reason |-> "Monthly"]
                 ELSE [due |-> FALSE, reason |-> "Not due yet"]

NoRet == [due |-> FALSE, reason |-> ""]

-----------------------------------------------------------------------------
(* assign_logic *)

\* all_people: the names of every non-empty 'Who can do this' cell
all_people(d) == UNION {d[i].Who : i \in DOMAIN d}

\* sorted(list(S)) on person identifiers
sorted(S) == SelectSeq(PeopleOrder, LAMBDA p : p \in S)

\* [p.strip() for p in str(cell).split(',')]: str() of the empty cell is 'nan'
row_people(cell) == IF cell = {} THEN {"nan"} ELSE cell

RECURSIVE unique_from(_, _, _)
unique_from(d, i, acc) ==
    IF i > Len(d) THEN acc
    ELSE unique_from(d, i + 1,
                     IF \E k \in DOMAIN acc : acc[k] = d[i].Area
                     THEN acc ELSE Append(acc, d[i].Area))

\* df['Area'].unique(): the areas in order of first appearance
unique(d) == unique_from(d, 1, <<>>)

\* variant of weight_from: a Daily task is charged once, not seven times
RECURSIVE weight_from_FlatMutant(_, _, _)
weight_from_FlatMutant(d, area, i) ==
    IF i > Len(d) THEN 0
    ELSE (IF d[i].Area # area THEN 0 ELSE d[i].Effort)
         + weight_from_FlatMutant(d, area, i + 1)

RECURSIVE weight_from(_, _, _)
weight_from(d, area, i) ==
    IF i > Len(d) THEN 0
    ELSE (IF d[i].Area # area THEN 0
          ELSE IF lower(d[i].frequency) = "daily" THEN d[i].Effort * 7
          ELSE d[i].Effort)
         + weight_from(d, area, i + 1)

area_weights(d, area) == weight_from(d, area, 1)

\* variant of eligible: the union (|=) of the rows' people, not the intersection
eligible_UnionMutant(d, area) ==
    {p \in all_people(d) :
        \E i \in DOMAIN d : d[i].Area = area /\ p \in row_people(d[i].Who)}

\* eligible = set(people); eligible &= set(row_people) for every row of the area
eligible(d, area) ==
    {p \in all_people(d) :
        \A i \in DOMAIN d : d[i].Area = area => p \in row_people(d[i].Who)}

\* variant of best_p: max() for min()
best_p_MaxMutant(d, area, person_load) ==
    LET el == eligible(d, area)
        pool == IF el # {} THEN el ELSE all_people(d)
        most == {p \in pool : \A q \in pool : person_load[p] >= person_load[q]}
    IN  IF pool = {} THEN {}
        ELSE IF el # {} THEN most
        ELSE {sorted(most)[1]}

\* min(area_to_eligible[area], key=person_load): the first person of minimal
\* load in the order of the list.  The fallback list `people` is sorted;
\* list(eligible) lists a set of str, whose iteration order depends on the
\* hash seed of the process, so any person of minimal load can be the first.
best_p(d, area, person_load) ==
    LET el == eligible(d, area)
        pool == IF el # {} THEN el ELSE all_people(d)
        least == {p \in pool : \A q \in pool : person_load[p] <= person_load[q]}
    IN  IF pool = {} THEN {}
        ELSE IF el # {} THEN least
        ELSE {sorted(least)[1]}

\* place area a behind every area whose weight is not smaller: a stable
\* descending order, as sorted(..., reverse=True) keeps equal keys in order
insert_desc(d, acc, a) ==
    LET k == Cardinality({j \in DOMAIN acc : area_weights(d, acc[j]) >= area_weights(d, a)})
    IN  SubSeq(acc, 1, k) \o <<a>> \o SubSeq(acc, k + 1, Len(acc))

RECURSIVE sorted_areas_from(_, _, _, _)
sorted_areas_from(d, areas, i, acc) ==
    IF i > Len(areas) THEN acc
    ELSE sorted_areas_from(d, areas, i + 1, insert_desc(d, acc, areas[i]))

\* sorted(areas, key=lambda x: area_weights[x], reverse=True)
sorted_areas(d) == sorted_areas_from(d, unique(d), 1, <<>>)

\* variant of apply_area: only the first row of the area is written
apply_area_FirstRowMutant(d, area, p) ==
    LET first == CHOOSE i \in DOMAIN d :
                    d[i].Area = area /\ \A j \in DOMAIN d : d[j].Area = area => i <= j
    IN  [i \in DOMAIN d |-> IF i = first THEN [d[i] EXCEPT !.Assigned = p] ELSE d[i]]

\* df.loc[df['Area'] == area, 'Currently Assigned To'] = best_p
apply_area(d, area, p) ==
    [i \in DOMAIN d |-> IF d[i].Area = area THEN [d[i] EXCEPT !.Assigned = p] ELSE d[i]]

\* the loop over the sorted areas: every table the loop can end with
RECURSIVE assign_loop(_, _, _, _)
assign_loop(d, order, k, person_load) ==
    IF k > Len(order) THEN {d}
    ELSE UNION {assign_loop(apply_area(d, order[k], p), order, k + 1,
                            [person_load EXCEPT ![p] = @ + area_weights(d, order[k])])
                : p \in best_p(d, order[k], person_load)}

\* the tables assign_logic can return for table d
assign_logic(d) ==
    assign_loop(d, sorted_areas(d), 1, [p \in all_people(d) |-> 0])

\* min() of an empty sequence raises ValueError: no person and at least one area
assign_raises(d) == all_people(d) = {} /\ Len(d) > 0

-----------------------------------------------------------------------------
(* main *)

is_monday == weekday(today) = START_OF_WEEK_DAY

\* lines 103-106: the row is skipped when no person is assigned
no_person(row) == isna(row.Assigned) \/ row.Assigned = "nan"

\* lines 109-120
is_go(row, t, monday) ==
    IF lower(row.frequency) = "daily" THEN TRUE
    ELSE IF monday /\ is_due(row, t).due THEN TRUE
    ELSE FALSE

selected(row, t, monday) == ~no_person(row) /\ is_go(row, t, monday)

RECURSIVE push_from(_, _, _, _)
push_from(d, t, monday, i) ==
    IF i > Len(d) THEN <<>>
    ELSE (IF selected(d[i], t, monday)
          THEN <<[person |-> d[i].Assigned, area |-> d[i].Area,
                  task |-> d[i].Activity, original_index |-> i]>>
          ELSE <<>>)
         \o push_from(d, t, monday, i + 1)

\* variant of mark_dates: the date is also written when is_due holds without a push
mark_dates_DueMutant(d, t, monday) ==
    [i \in DOMAIN d |->
        IF ~no_person(d[i]) /\ (is_go(d[i], t, monday) \/ is_due(d[i], t).due)
        THEN [d[i] EXCEPT !.Last = isoformat(t)] ELSE d[i]]

\* line 131: df.at[idx, 'Last Assigned Date'] = today.isoformat()
mark_dates(d, t, monday) ==
    [i \in DOMAIN d |->
        IF selected(d[i], t, monday) THEN [d[i] EXCEPT !.Last = isoformat(t)] ELSE d[i]]

\* the positions at which the script has ended: the end of main, the return
\* of line 95, the uncaught exception of assign_logic, the return of line 156
Stopped == {"exit", "read_failed", "raised", "auth_failed"}

\* variant of after_read_error: the script goes on after the read error
after_read_error_NoReturnMutant == "check"

\* lines 93-95: except ... return
after_read_error == "read_failed"

\* variant of after_auth: the script goes on after a failed authentication
after_auth_NoReturnMutant(ok) == "sync"

\* lines 151-156: the script returns when authenticate raises
after_auth(ok) == IF ok THEN "sync" ELSE "auth_failed"

\* a call of the Keep client on behalf of a person ("" for the account)
Call(p, op, ok) == [person |-> p, op |-> op, ok |-> ok]

Load ==
    /\ pc = "start"
    /\ top_lines' = csv_top
    /\ df' = csv
    /\ pc' = IF is_monday THEN "assign" ELSE "check"
    /\ UNCHANGED <<csv, csv_top, today, tasks_to_push, ret>>
    /\ UNCHANGED <<environ, store, keep, calls, groups, run_no, prev>>

LoadFail ==
    /\ pc = "start"
    /\ pc' = after_read_error
    /\ UNCHANGED <<csv, csv_top, df, top_lines, today, tasks_to_push, ret>>
    /\ UNCHANGED <<environ, store, keep, calls, groups, run_no, prev>>

AssignLogic ==
    /\ pc = "assign"
    /\ ~assign_raises(df)
    /\ df' \in assign_logic(df)
    /\ pc' = "check"
    /\ UNCHANGED <<csv, csv_top, top_lines, today, tasks_to_push, ret>>
    /\ UNCHANGED <<environ, store, keep, calls, groups, run_no, prev>>

AssignRaises ==
    /\ pc = "assign"
    /\ assign_raises(df)
    /\ pc' = "raised"
    /\ UNCHANGED <<csv, csv_top, df, top_lines, today, tasks_to_push, ret>>
    /\ UNCHANGED <<environ, store, keep, calls, groups, run_no, prev>>

CheckDue ==
    /\ pc = "check"
    /\ tasks_to_push' = push_from(df, today, is_monday, 1)
    /\ df' = mark_dates(df, today, is_monday)
    /\ pc' = "save"
    /\ UNCHANGED <<csv, csv_top, top_lines, today, ret>>
    /\ UNCHANGED <<environ, store, keep, calls, groups, run_no, prev>>

\* lines 137-143: the two leading lines, then the table
Save ==
    /\ pc = "save"
    /\ csv_top' = top_lines
    /\ csv' = to_csv(df)
    /\ pc' = "auth"
    /\ UNCHANGED <<df, top_lines, today, tasks_to_push, ret>>
    /\ UNCHANGED <<environ, store, keep, calls, groups, run_no, prev>>

\* lines 145-156: authenticate loads the notes of the account
Authenticate ==
    /\ pc = "auth"
    /\ \E ok \in BOOLEAN :
          /\ calls' = Append(calls, Call("", "authenticate", ok))
          /\ keep' = IF ok THEN store ELSE keep
          /\ pc' = after_auth(ok)
    /\ UNCHANGED <<csv, csv_top, df, top_lines, today, tasks_to_push, ret>>
    /\ UNCHANGED <<environ, store, groups, run_no, prev>>

-----------------------------------------------------------------------------
(* Google Keep: the notes of the account and the sync loop of main.  A     *)
(* note is keyed by the person whose NOTE_<PERSON> variable names it.  An  *)
(* item is a record [id, text, checked, parent]; the id of an item made by *)
(* a run is <<day, run of the day, position>>.                             *)

NoParent == <<>>

\* a parent reference the store could not resolve
Unresolved == <<0, 0, 0>>

Item(id, text, checked, parent) ==
    [id |-> id, text |-> text, checked |-> checked, parent |-> parent]

NoNote == [exists |-> FALSE, items |-> <<>>]

NoKeep == [p \in People |-> NoNote]

NoPrev == [pc |-> "none", push |-> <<>>, calls |-> <<>>, store |-> NoKeep]

\* line 159: tasks_to_push.sort(key=person), a stable sort
RECURSIVE sort_by_person(_, _)
sort_by_person(tasks, k) ==
    IF k > Len(PeopleOrder) THEN <<>>
    ELSE SelectSeq(tasks, LAMBDA t : t.person = PeopleOrder[k])
         \o sort_by_person(tasks, k + 1)

\* line 161: the keys of groupby, one for every run of equal persons
RECURSIVE groupby_keys(_, _)
groupby_keys(tasks, i) ==
    IF i > Len(tasks) THEN <<>>
    ELSE (IF i > 1 /\ tasks[i - 1].person = tasks[i].person
          THEN <<>> ELSE <<tasks[i].person>>)
         \o groupby_keys(tasks, i + 1)

\* sorted(..., key=original_index): stable insertion of t into s
RECURSIVE insert_by_index(_, _)
insert_by_index(s, t) ==
    IF s = <<>> THEN <<t>>
    ELSE IF Head(s).original_index <= t.original_index
         THEN <<Head(s)>> \o insert_by_index(Tail(s), t)
         ELSE <<t>> \o s

RECURSIVE sorted_by_index(_)
sorted_by_index(s) ==
    IF s = <<>> THEN <<>>
    ELSE insert_by_index(sorted_by_index(SubSeq(s, 1, Len(s) - 1)), s[Len(s)])

\* line 188: the tasks of the group of person p, in catalog order
p_tasks(tasks, p) == sorted_by_index(SelectSeq(tasks, LAMBDA t : t.person = p))

\* variant of delete_items: only the checked items are deleted
delete_items_CheckedMutant(items) == SelectSeq(items, LAMBDA it : ~it.checked)

\* lines 183-184: for item in list(note.items): item.delete()
delete_items(items) == SelectSeq(items, LAMBDA it : FALSE)

\* the distinct areas of the tasks, in order of first appearance
RECURSIVE header_areas(_, _, _)
header_areas(pt, i, acc) ==
    IF i > Len(pt) THEN acc
    ELSE header_areas(pt, i + 1,
            IF \E k \in DOMAIN acc : acc[k] = pt[i].area THEN acc
            ELSE Append(acc, pt[i].area))

\* one header item for every distinct area
add_headers(items, pt, t, r) ==
    LET areas == header_areas(pt, 1, <<>>) IN
    items \o [k \in 1..Len(areas) |->
                Item(<<t, r, Len(items) + k>>, areas[k], FALSE, NoParent)]

\* the id of the header item of an area
header_id(items, area) ==
    IF \E h \in DOMAIN items : items[h].parent = NoParent /\ items[h].text = area
    THEN items[CHOOSE h \in DOMAIN items :
                   items[h].parent = NoParent /\ items[h].text = area].id
    ELSE Unresolved

\* one child item for every task, parented to the header of its area
add_children(items, pt, t, r) ==
    items \o [k \in 1..Len(pt) |->
                Item(<<t, r, Len(items) + k>>, pt[k].task, FALSE,
                     header_id(items, pt[k].area))]

ids(items) == {items[k].id : k \in DOMAIN items}

\* the store resolves a parent reference to an item it holds already; for
\* a parent that arrives in the same batch the reference may be lost
commit_note(held, sent, lost) ==
    [sent EXCEPT !.items =
        [k \in DOMAIN sent.items |->
            IF /\ lost
               /\ sent.items[k].parent # NoParent
               /\ sent.items[k].parent \notin ids(held.items)
            THEN [sent.items[k] EXCEPT !.parent = Unresolved]
            ELSE sent.items[k]]]

\* keep.sync(): the notes of the account after the pending changes are sent
commit(s, k) == {[p \in People |-> commit_note(s[p], k[p], lost)] : lost \in BOOLEAN}

\* variant of after_skip: the loop is left at the first person without a title
after_skip_BreakMutant(g) == <<>>

\* line 170: continue with the next group
after_skip(g) == Tail(g)

\* lines 159-161: the push list is sorted by person and grouped
StartSync ==
    /\ pc = "sync"
    /\ tasks_to_push' = sort_by_person(tasks_to_push, 1)
    /\ groups' = groupby_keys(tasks_to_push', 1)
    /\ pc' = "person"
    /\ UNCHANGED <<csv, csv_top, df, top_lines, today, ret>>
    /\ UNCHANGED <<environ, store, keep, calls, run_no, prev>>

\* lines 162-170: no note title for the person of the group
SkipPerson ==
    /\ pc = "person"
    /\ groups # <<>>
    /\ Head(groups) \notin environ
    /\ groups' = after_skip(groups)
    /\ UNCHANGED <<csv, csv_top, df, top_lines, today, pc, tasks_to_push, ret>>
    /\ UNCHANGED <<environ, store, keep, calls, run_no, prev>>

\* lines 172-178: the note of the person is looked up, or created
FindNote ==
    /\ pc = "person"
    /\ groups # <<>>
    /\ Head(groups) \in environ
    /\ LET p == Head(groups) IN
          IF keep[p].exists
          THEN /\ calls' = Append(calls, Call(p, "find", TRUE))
               /\ keep' = keep
          ELSE /\ calls' = calls \o <<Call(p, "find", TRUE), Call(p, "create", TRUE)>>
               /\ keep' = [keep EXCEPT ![p] = [exists |-> TRUE, items |-> <<>>]]
    /\ pc' = "clear"
    /\ UNCHANGED <<csv, csv_top, df, top_lines, today, tasks_to_push, ret>>
    /\ UNCHANGED <<environ, store, groups, run_no, prev>>

\* lines 180-185: the items of the note are deleted; lines 187-191: the
\* script goes on to add the tasks
ClearItems ==
    /\ pc = "clear"
    /\ LET p == Head(groups) IN
          /\ keep' = [keep EXCEPT ![p].items = delete_items(@)]
          /\ calls' = Append(calls, Call(p, "clear", TRUE))
    /\ pc' = "headers"
    /\ UNCHANGED <<csv, csv_top, df, top_lines, today, tasks_to_push, ret>>
    /\ UNCHANGED <<environ, store, groups, run_no, prev>>

\* the header items of the areas are added to the note
AddHeaders ==
    /\ pc = "headers"
    /\ LET p == Head(groups) IN
          /\ keep' = [keep EXCEPT ![p].items =
                         add_headers(@, p_tasks(tasks_to_push, p), today, run_no)]
          /\ calls' = Append(calls, Call(p, "add_headers", TRUE))
    /\ pc' = "commit_headers"
    /\ UNCHANGED <<csv, csv_top, df, top_lines, today, tasks_to_push, ret>>
    /\ UNCHANGED <<environ, store, groups, run_no, prev>>

\* the child items of the tasks are added under the committed headers
AddChildren ==
    /\ pc = "children"
    /\ LET p == Head(groups) IN
          /\ keep' = [keep EXCEPT ![p].items =
                         add_children(@, p_tasks(tasks_to_push, p), today, run_no)]
          /\ calls' = Append(calls, Call(p, "add_children", TRUE))
    /\ pc' = "commit_children"
    /\ UNCHANGED <<csv, csv_top, df, top_lines, today, tasks_to_push, ret>>
    /\ UNCHANGED <<environ, store, groups, run_no, prev>>

\* the step is committed to the store; after the children the loop goes on
\* to the next person
Commit ==
    /\ pc \in {"commit_headers", "commit_children"}
    /\ store' \in commit(store, keep)
    /\ keep' = store'
    /\ calls' = Append(calls, Call(Head(groups), "commit", TRUE))
    /\ pc' = IF pc = "commit_headers" THEN "children" ELSE "person"
    /\ groups' = IF pc = "commit_headers" THEN groups ELSE Tail(groups)
    /\ UNCHANGED <<csv, csv_top, df, top_lines, today, tasks_to_push, ret>>
    /\ UNCHANGED <<environ, run_no, prev>>

\* the store call fails: the error is reported and the loop goes on to the
\* next person; the changes stay pending in the client
CommitFails ==
    /\ pc \in {"commit_headers", "commit_children"}
    /\ calls' = Append(calls, Call(Head(groups), "commit", FALSE))
    /\ pc' = "person"
    /\ groups' = Tail(groups)
    /\ UNCHANGED <<csv, csv_top, df, top_lines, today, tasks_to_push, ret>>
    /\ UNCHANGED <<environ, store, keep, run_no, prev>>

\* the loop of line 161 is exhausted: the end of main
SyncDone ==
    /\ pc = "person"
    /\ groups = <<>>
    /\ pc' = "exit"
    /\ UNCHANGED <<csv, csv_top, df, top_lines, today, tasks_to_push, ret>>
    /\ UNCHANGED <<environ, store, keep, calls, groups, run_no, prev>>

\* the next day's invocation of the script, up to day `last`
Tomorrow(last) ==
    /\ pc \in Stopped
    /\ today < last
    /\ today' = today + 1
    /\ pc' = "start"
    /\ df' = <<>>
    /\ top_lines' = <<>>
    /\ tasks_to_push' = <<>>
    /\ keep' = NoKeep
    /\ calls' = <<>>
    /\ groups' = <<>>
    /\ run_no' = 1
    /\ prev' = NoPrev
    /\ UNCHANGED <<csv, csv_top, ret, environ, store>>

NextDay == Tomorrow(LastDay)

\* the script is invoked once more on the same day; prev keeps the end of
\* the run before
RunAgain ==
    /\ pc \in Stopped
    /\ run_no < MaxRuns
    /\ run_no' = run_no + 1
    /\ prev' = [pc |-> pc, push |-> tasks_to_push, calls |-> calls, store |-> store]
    /\ pc' = "start"
    /\ df' = <<>>
    /\ top_lines' = <<>>
    /\ tasks_to_push' = <<>>
    /\ keep' = NoKeep
    /\ calls' = <<>>
    /\ groups' = <<>>
    /\ UNCHANGED <<csv, csv_top, today, ret, environ, store>>

-----------------------------------------------------------------------------
(* The daily-run specification: the script is run once a day, with no    *)
(* note title in the environment                                           *)

Row(a, f, w, l, p) ==
    [Area |-> a, Activity |-> Activities[1], frequency |-> f,
     Effort |-> 10, Who |-> w, Last |-> l, Assigned |-> p]

\* rows that vary the due-date cells
DueRows ==
    {Row(AreaNames[1], f, People, l, "Alice") :
        f \in {"Daily", "Daily ", "Weekly", "Yearly"},
        l \in {NaNDate, isoformat(-7), isoformat(20)}}

\* rows that vary the assignment cells
AssignRows ==
    {Row(a, "Daily", w, NaNDate, p) :
        a \in {AreaNames[1], AreaNames[2]},
        w \in {{}, {"Alice"}, People},
        p \in {"", "Alice", "Bob"}}

RowChoices == DueRows \cup AssignRows

\* the activity of a row names the row
Catalog(rows) == [i \in DOMAIN rows |-> [rows[i] EXCEPT !.Activity = Activities[i]]]

\* the first run is on a Sunday, on any catalog
\* a header and a child left in a note by a run of the day before day 0
StaleItems(checked) ==
    <<Item(<<-1, 1, 1>>, AreaNames[3], FALSE, NoParent),
      Item(<<-1, 1, 2>>, Activities[4], checked, <<-1, 1, 1>>)>>

StaleNote(checked) == [exists |-> TRUE, items |-> StaleItems(checked)]

\* the state of the script before a run
BeforeRun ==
    /\ csv_top = TopLines
    /\ df = <<>>
    /\ top_lines = <<>>
    /\ pc = "start"
    /\ tasks_to_push = <<>>
    /\ ret = NoRet
    /\ keep = NoKeep
    /\ calls = <<>>
    /\ groups = <<>>
    /\ run_no = 1
    /\ prev = NoPrev

\* the first run is on a Sunday, on any catalog; no note title is set in
\* the environment, so the sync loop skips every person
Init ==
    /\ today = 6
    /\ \E n \in 0..MaxRows : \E rows \in [1..n -> RowChoices] : csv = Catalog(rows)
    /\ environ = {}
    /\ store = [p \in People |-> IF p = "Alice" THEN StaleNote(TRUE) ELSE NoNote]
    /\ BeforeRun

Next ==
    \/ Load
    \/ LoadFail
    \/ AssignLogic
    \/ AssignRaises
    \/ CheckDue
    \/ Save
    \/ Authenticate
    \/ StartSync
    \/ SkipPerson
    \/ SyncDone
    \/ NextDay

Spec == Init /\ [][Next]_vars

-----------------------------------------------------------------------------
(* The one-day specification: the script is run up to MaxRuns times on a   *)
(* Monday or on a Tuesday, with a note title for Bob or for both persons   *)
(* in the environment and a note of an earlier run in the account:         *)
(* Alice's with a checked child, or Bob's with an unchecked one            *)

\* frequency and date, eligible people and person of the rows
DayRowChoices ==
    {Row(AreaNames[a], fl[1], wp[1], fl[2], wp[2]) :
        a \in 1..2,
        fl \in {<<"Daily", NaNDate>>, <<"Weekly", NaNDate>>},
        wp \in {<<{}, "">>, <<People, "Alice">>, <<People, "Bob">>}}

InitDay ==
    /\ today \in {7, 8}
    /\ \E n \in 0..MaxDayRows :
          \E rows \in [1..n -> DayRowChoices] :
             /\ \A i \in 1..n : \E k \in 1..i : rows[i].Area = AreaNames[k]
             /\ csv = Catalog(rows)
    /\ environ \in {{"Bob"}, People}
    /\ \E old \in People :
          store = [p \in People |->
                     IF p # old THEN NoNote ELSE StaleNote(p = "Alice")]
    /\ BeforeRun

NextDayRuns ==
    \/ Load
    \/ LoadFail
    \/ AssignLogic
    \/ AssignRaises
    \/ CheckDue
    \/ Save
    \/ Authenticate
    \/ StartSync
    \/ SkipPerson
    \/ FindNote
    \/ ClearItems
    \/ AddHeaders
    \/ AddChildren
    \/ Commit
    \/ CommitFails
    \/ SyncDone
    \/ RunAgain

SpecDay == InitDay /\ [][NextDayRuns]_vars

-----------------------------------------------------------------------------
(* reset_csv.py and the reset specification: the maintenance script is     *)
(* run on any catalog                                                      *)

\* variant of wipe_dates: the persons are wiped as well (the line that
\* reset_csv.py keeps commented out)
wipe_dates_ReshuffleMutant(d) ==
    [i \in DOMAIN d |-> [d[i] EXCEPT !.Last = EmptyStr, !.Assigned = ""]]

\* reset_csv.py line 20: df['Last Assigned Date'] = ''
wipe_dates(d) == [i \in DOMAIN d |-> [d[i] EXCEPT !.Last = EmptyStr]]

\* reset_csv.py lines 8-32: the leading lines and the table are read, the
\* dates are wiped, the leading lines and the table are written
reset_csv ==
    /\ pc = "reset"
    /\ top_lines' = csv_top
    /\ df' = wipe_dates(csv)
    /\ csv_top' = top_lines'
    /\ csv' = to_csv(df')
    /\ pc' = "reset_done"
    /\ UNCHANGED <<today, tasks_to_push, ret>>
    /\ UNCHANGED <<environ, store, keep, calls, groups, run_no, prev>>

\* reset_csv.py lines 11-13: the file is not there
reset_csv_not_found ==
    /\ pc = "reset"
    /\ pc' = "reset_not_found"
    /\ UNCHANGED <<csv, csv_top, df, top_lines, today, tasks_to_push, ret>>
    /\ UNCHANGED <<environ, store, keep, calls, groups, run_no, prev>>

InitReset ==
    /\ today = 6
    /\ \E n \in 0..MaxRows : \E rows \in [1..n -> RowChoices] : csv = Catalog(rows)
    /\ csv_top = TopLines
    /\ df = <<>>
    /\ top_lines = <<>>
    /\ pc = "reset"
    /\ tasks_to_push = <<>>
    /\ ret = NoRet
    /\ environ = {}
    /\ store = NoKeep
    /\ keep = NoKeep
    /\ calls = <<>>
    /\ groups = <<>>
    /\ run_no = 1
    /\ prev = NoPrev

NextReset ==
    \/ reset_csv
    \/ reset_csv_not_found

SpecReset == InitReset /\ [][NextReset]_vars

-----------------------------------------------------------------------------
(* The cadence specification: a one-row catalog, the script is run once on *)
(* every day from Monday day 0 on; the file is readable on every day and   *)
(* no note title is set                                                    *)

InitCadence ==
    /\ today = 0
    /\ \E f \in FreqCells, l \in {NaNDate, isoformat(-3), isoformat(-7), isoformat(-28)},
          w \in {{"Alice"}, People}, p \in {"", "Alice"} :
          csv = Catalog(<<Row(AreaNames[1], f, w, l, p)>>)
    /\ environ = {}
    /\ store = NoKeep
    /\ BeforeRun

NextCadenceDay == Tomorrow(LastCadenceDay)

NextCadence ==
    \/ Load
    \/ AssignLogic
    \/ CheckDue
    \/ Save
    \/ Authenticate
    \/ StartSync
    \/ SkipPerson
    \/ SyncDone
    \/ NextCadenceDay

SpecCadence == InitCadence /\ [][NextCadence]_vars

-----------------------------------------------------------------------------
\* the rest of the state in the first run of a day, the file read, no
\* note in the account
InRun ==
    /\ csv_top = TopLines
    /\ top_lines = TopLines
    /\ environ = People
    /\ store = NoKeep
    /\ keep = NoKeep
    /\ calls = <<>>
    /\ groups = <<>>
    /\ run_no = 1
    /\ prev = NoPrev

-----------------------------------------------------------------------------
(* The is_due specification: is_due, then the due-date loop of main, on    *)
(* every one-row table, on a Monday and on a Tuesday                       *)

InitDue ==
    /\ today \in {0, 1}
    /\ \E f \in FreqCells :
          \E l \in {NaNDate, TextDate}
                     \cup {isoformat(d) : d \in (today - MaxAge)..(today + MaxSkew)} :
             df = Catalog(<<Row(AreaNames[1], f, People, l, "Alice")>>)
    /\ csv = df
    /\ pc = "is_due"
    /\ tasks_to_push = <<>>
    /\ ret = NoRet
    /\ InRun

CallIsDue ==
    /\ pc = "is_due"
    /\ ret' = is_due(df[1], today)
    /\ pc' = "check"
    /\ UNCHANGED <<csv, csv_top, df, top_lines, today, tasks_to_push>>
    /\ UNCHANGED <<environ, store, keep, calls, groups, run_no, prev>>

NextDue ==
    \/ CallIsDue
    \/ CheckDue

SpecDue == InitDue /\ [][NextDue]_vars

-----------------------------------------------------------------------------
(* The assignment specification: assign_logic on every small table.  The   *)
(* code compares area names only for equality, so row i takes one of the   *)
(* first i area names.                                                      *)

WeightedRow(a, fe, w) ==
    [Area |-> a, Activity |-> Activities[1], frequency |-> fe[1],
     Effort |-> fe[2], Who |-> w, Last |-> NaNDate, Assigned |-> ""]

AssignRowChoices ==
    {WeightedRow(AreaNames[a], fe, w) :
        a \in DOMAIN AreaNames,
        fe \in {<<"Daily", 10>>, <<"Weekly", 10>>, <<"Weekly", 30>>},
        w \in SUBSET People}

InitAssign ==
    /\ today = 0
    /\ \E n \in 1..MaxAssignRows :
          \E rows \in [1..n -> AssignRowChoices] :
             /\ \A i \in 1..n : \E k \in 1..i : k <= Len(AreaNames) /\ rows[i].Area = AreaNames[k]
             /\ df = Catalog(rows)
    /\ csv = df
    /\ pc = "assign"
    /\ tasks_to_push = <<>>
    /\ ret = NoRet
    /\ InRun

NextAssign ==
    \/ AssignLogic
    \/ AssignRaises

SpecAssign == InitAssign /\ [][NextAssign]_vars

-----------------------------------------------------------------------------
(* Vocabulary of the properties *)

\* the frequency of a row, read as is_due reads the cell
Frequency(row) == strip(lower(row.frequency))

IsDaily(row) == Frequency(row) = "daily"

KnownFrequency(row) == Frequency(row) \in {"daily", "weekly", "fortnightly", "monthly"}

HasPerson(row) == row.Assigned \notin {"", "nan"}

\* the last_assigned_date of a row is absent: an empty cell or no date
DateAbsent(row) == row.Last.kind # "iso"

\* row i of the table is on the push list
Pushed(i) == \E k \in DOMAIN tasks_to_push : tasks_to_push[k].original_index = i

\* the person universe and the eligible set of an area, from the task rows
Universe(d) == UNION {d[i].Who : i \in DOMAIN d}

TaskIntersection(d, a) ==
    {p \in Universe(d) : \A i \in DOMAIN d : d[i].Area = a => p \in d[i].Who}

EligibleSet(d, a) ==
    IF TaskIntersection(d, a) # {} THEN TaskIntersection(d, a) ELSE Universe(d)

AreasOf(d) == {d[i].Area : i \in DOMAIN d}

AssignedAreas(d, p) == {d[i].Area : i \in {j \in DOMAIN d : d[j].Assigned = p}}

RECURSIVE SumWeights(_, _)
SumWeights(d, S) ==
    IF S = {} THEN 0
    ELSE LET a == CHOOSE x \in S : TRUE
         IN  area_weights(d, a) + SumWeights(d, S \ {a})

FinalLoad(d, p) == SumWeights(d, AssignedAreas(d, p))

Abs(x) == IF x < 0 THEN 0 - x ELSE x

\* the weight of the largest area that p or q is eligible for
LargestEligible(d, p, q) ==
    LET W == {area_weights(d, a) :
                 a \in {x \in AreasOf(d) : p \in EligibleSet(d, x) \/ q \in EligibleSet(d, x)}}
    IN  IF W = {} THEN 0 ELSE CHOOSE w \in W : \A v \in W : v <= w

ShareAnArea(d, p, q) ==
    \E a \in AreasOf(d) : p \in EligibleSet(d, a) /\ q \in EligibleSet(d, a)

AreaAtomic(d) ==
    \A i, j \in DOMAIN d : d[i].Area = d[j].Area => d[i].Assigned = d[j].Assigned

\* the assignment loop with ties of minimal load broken alphabetically
RECURSIVE AlphabeticalLoop(_, _, _, _)
AlphabeticalLoop(d, order, k, load) ==
    IF k > Len(order) THEN d
    ELSE LET pool == EligibleSet(d, order[k])
             least == {p \in pool : \A q \in pool : load[p] <= load[q]}
             p == sorted(least)[1]
         IN  AlphabeticalLoop(apply_area(d, order[k], p), order, k + 1,
                              [load EXCEPT ![p] = @ + area_weights(d, order[k])])

AlphabeticalAssign(d) ==
    AlphabeticalLoop(d, sorted_areas(d), 1, [p \in Universe(d) |-> 0])

AssignmentDone == pc = "check" /\ is_monday

-----------------------------------------------------------------------------
(* Properties *)

\* C1: in every daily run a row is put on the push list iff it has an
\* assigned person and its frequency is Daily, or today is the reset day and
\* is_due holds for it; a row without an assigned person is never pushed.
C1_PushSelection ==
    pc = "save" =>
        \A i \in DOMAIN df :
            Pushed(i) <=> /\ HasPerson(df[i])
                          /\ \/ IsDaily(csv[i])
                             \/ is_monday /\ is_due(csv[i], today).due

\* C2: the run writes today as last_assigned_date of exactly the rows on the
\* push list and keeps the date of every other row; on a non-reset day it
\* keeps every row's assigned person.
C2_DateFrame ==
    [][(pc = "save" /\ pc' = "auth") =>
          /\ Len(csv') = Len(csv)
          /\ \A i \in DOMAIN csv :
                /\ csv'[i].Last = IF Pushed(i) THEN isoformat(today) ELSE csv[i].Last
                /\ ~is_monday => csv'[i].Assigned = csv[i].Assigned]_vars

\* a Weekly row last assigned 3 days ago was saved, unpushed, on a non-reset day
C2_Witness ==
    /\ pc = "auth"
    /\ ~is_monday
    /\ \E i \in DOMAIN csv :
          /\ Frequency(csv[i]) = "weekly"
          /\ csv[i].Last = isoformat(today - 3)
          /\ ~Pushed(i)
    /\ \E i \in DOMAIN csv : Pushed(i)

\* C3: for a frequency among Daily, Weekly, Fortnightly, Monthly is_due is the
\* ordered rule table: Daily is due; else an absent date is due; else the
\* task is due iff days_since reaches 7 (Weekly), 14 (Fortnightly), 28 (Monthly).
C3_DueRuleTable ==
    (pc # "is_due" /\ KnownFrequency(csv[1])) =>
        ret.due = IF IsDaily(csv[1]) THEN TRUE
                  ELSE IF DateAbsent(csv[1]) THEN TRUE
                  ELSE LET days_since == today - csv[1].Last.day
                       IN  \/ Frequency(csv[1]) = "weekly" /\ days_since >= 7
                           \/ Frequency(csv[1]) = "fortnightly" /\ days_since >= 14
                           \/ Frequency(csv[1]) = "monthly" /\ days_since >= 28

\* is_due has answered "due" for a Weekly task assigned exactly 7 days ago
C3_Witness ==
    /\ pc # "is_due"
    /\ Frequency(csv[1]) = "weekly"
    /\ csv[1].Last = isoformat(today - 7)
    /\ ret.due

\* C4: a task of unknown frequency is never due, whatever its date (absent
\* included), so no run pushes it or changes its last_assigned_date.
C4_UnknownNeverDue ==
    (pc = "save" /\ ~KnownFrequency(csv[1])) =>
        /\ ~ret.due
        /\ tasks_to_push = <<>>
        /\ df[1].Last = csv[1].Last

\* C5: a non-daily task dated after today is not due, is not pushed on a
\* reset day and keeps its last_assigned_date.
C5_FutureDateNotDue ==
    (pc = "save" /\ ~IsDaily(csv[1]) /\ ~DateAbsent(csv[1]) /\ csv[1].Last.day > today) =>
        /\ ~ret.due
        /\ tasks_to_push = <<>>
        /\ df[1].Last = csv[1].Last

\* the reset-day run has gone over a Monthly task dated 28 days ahead
C5_Witness ==
    /\ pc = "save"
    /\ is_monday
    /\ Frequency(csv[1]) = "monthly"
    /\ csv[1].Last = isoformat(today + 28)

\* C6: every area goes to a person of the intersection of its tasks'
\* eligible_people; only if that is empty to any person of the universe; with
\* a non-empty universe no row is left without a person of the universe.
C6_Eligibility ==
    AssignmentDone =>
        \A i \in DOMAIN df :
            /\ TaskIntersection(csv, df[i].Area) # {}
                  => df[i].Assigned \in TaskIntersection(csv, df[i].Area)
            /\ df[i].Assigned \in Universe(csv)

\* one area was assigned inside a proper intersection, another by fallback
C6_Witness ==
    /\ AssignmentDone
    /\ \E i \in DOMAIN df :
          /\ TaskIntersection(csv, df[i].Area) = {}
          /\ df[i].Assigned \in Universe(csv)
    /\ \E i \in DOMAIN df :
          /\ TaskIntersection(csv, df[i].Area) # {}
          /\ TaskIntersection(csv, df[i].Area) # Universe(csv)

\* C7: the assignment is the deterministic one: descending weight, minimal
\* load, ties of load to the alphabetically first eligible person.
C7_Deterministic ==
    AssignmentDone => df = AlphabeticalAssign(csv)

\* C8: two people eligible for a common area end with loads that differ by at
\* most the weight of the largest area either is eligible for.
C8_FairnessBound ==
    AssignmentDone =>
        \A p, q \in Universe(csv) :
            ShareAnArea(csv, p, q) =>
                Abs(FinalLoad(df, p) - FinalLoad(df, q)) <= LargestEligible(csv, p, q)

\* C8 amended: the bound holds for two people eligible for a common area when
\* each of them is also eligible for every area assigned to the other.
C8_FairnessBoundAmended ==
    AssignmentDone =>
        \A p, q \in Universe(csv) :
            (/\ ShareAnArea(csv, p, q)
             /\ \A a \in AssignedAreas(df, p) : q \in EligibleSet(csv, a)
             /\ \A a \in AssignedAreas(df, q) : p \in EligibleSet(csv, a))
                => Abs(FinalLoad(df, p) - FinalLoad(df, q)) <= LargestEligible(csv, p, q)

\* two people, each eligible for all the other got, both loaded, unequally
C8_Witness ==
    /\ AssignmentDone
    /\ \E p, q \in Universe(csv) :
          /\ ShareAnArea(csv, p, q)
          /\ \A a \in AssignedAreas(df, p) : q \in EligibleSet(csv, a)
          /\ \A a \in AssignedAreas(df, q) : p \in EligibleSet(csv, a)
          /\ FinalLoad(df, q) > 0
          /\ FinalLoad(df, p) > FinalLoad(df, q)

KitchenBathroom ==
    Catalog(<<WeightedRow("Kitchen", <<"Daily", 10>>, {"Alice", "Bob"}),
              WeightedRow("Bathroom", <<"Weekly", 30>>, {"Alice"})>>)

\* C9: Kitchen (Daily, 10, {Alice, Bob}) and Bathroom (Weekly, 30, {Alice}) on
\* the reset day: weights 70 and 30, Bathroom to Alice, Kitchen to Bob.
C9_Scenario ==
    (AssignmentDone /\ csv = KitchenBathroom) =>
        /\ area_weights(csv, "Kitchen") = 70
        /\ area_weights(csv, "Bathroom") = 30
        /\ df[2].Assigned = "Alice"
        /\ df[1].Assigned = "Bob"

\* C9 amended: weights 70 and 30, Bathroom to Alice, and Kitchen, the
\* heavier area and so the first one taken, to Alice or to Bob.
C9_ScenarioAmended ==
    (AssignmentDone /\ csv = KitchenBathroom) =>
        /\ area_weights(csv, "Kitchen") = 70
        /\ area_weights(csv, "Bathroom") = 30
        /\ sorted_areas(csv) = <<"Kitchen", "Bathroom">>
        /\ df[2].Assigned = "Alice"
        /\ df[1].Assigned \in {"Alice", "Bob"}

\* the scenario ended with Kitchen and Bathroom both assigned to Alice
C9_Witness ==
    /\ AssignmentDone
    /\ csv = KitchenBathroom
    /\ df[1].Assigned = "Alice"
    /\ df[2].Assigned = "Alice"

\* C10: the catalog saved by a reset-day run has one person per area, and a
\* catalog with one person per area keeps that through every later run.
C10_AreaAtomicity ==
    /\ []((pc = "auth" /\ is_monday) => AreaAtomic(csv))
    /\ [][AreaAtomic(csv) => AreaAtomic(csv')]_vars

\* a run after the second reset day saved two rows of one area
C10_Witness ==
    /\ pc = "auth"
    /\ today > 14
    /\ \E i, j \in DOMAIN csv : i # j /\ csv[i].Area = csv[j].Area
    /\ AreaAtomic(csv)

-----------------------------------------------------------------------------
(* Vocabulary of the properties about the save and the sync *)

\* the file read of the run failed: the script is past line 84 without the
\* leading lines
ReadFailed == pc # "start" /\ top_lines = <<>>

\* the authentication of the run failed
AuthFailed == calls # <<>> /\ calls[1].op = "authenticate" /\ ~calls[1].ok

\* the file holds the decisions of the run: the table in memory, with the
\* person and today's date of every pushed row
DecisionsSaved ==
    /\ csv = df
    /\ csv_top = top_lines
    /\ \A k \in DOMAIN tasks_to_push :
          LET i == tasks_to_push[k].original_index IN
          /\ csv[i].Assigned = tasks_to_push[k].person
          /\ csv[i].Last = isoformat(today)

\* C11: every call of the Keep client, authenticate included, is made when
\* the file already holds the decisions of the run; the store changes only
\* then; after a failed authentication no further call is made and the
\* store is left as it is.
C11_SavedBeforeRemote ==
    /\ [](calls # <<>> => DecisionsSaved)
    /\ [](AuthFailed => Len(calls) = 1)
    /\ [][store' # store => (DecisionsSaved /\ ~AuthFailed)]_vars

\* the authentication failed on a reset day with a pushed task of a person
\* who has a note title
C11_Witness ==
    /\ pc = "auth_failed"
    /\ is_monday
    /\ \E k \in DOMAIN tasks_to_push :
          /\ tasks_to_push[k].person \in environ
          /\ csv[tasks_to_push[k].original_index].Last = isoformat(today)

\* C12: when the read of the file fails the script stops at once: no table
\* is loaded, nothing is pushed, no Keep call is made, and the step leaves
\* the file and the store as they are.
C12_ReadFailureAborts ==
    /\ [](ReadFailed =>
            (pc = "read_failed" /\ df = <<>> /\ tasks_to_push = <<>> /\ calls = <<>>))
    /\ [][ReadFailed' => (csv' = csv /\ csv_top' = csv_top /\ store' = store)]_vars

\* the read failed on a reset day for a catalog with a Daily row that has
\* a person and no date yet
C12_Witness ==
    /\ pc = "read_failed"
    /\ is_monday
    /\ \E i \in DOMAIN csv :
          HasPerson(csv[i]) /\ IsDaily(csv[i]) /\ csv[i].Last = NaNDate

\* C13: on a reset day with an empty person universe the script does not
\* get past the assignment: it stops with an error before the due-date
\* loop, the save and every Keep call.
C13_EmptyUniverseFailsFast ==
    (is_monday /\ pc # "start" /\ ~ReadFailed /\ all_people(csv) = {}) =>
        (pc \in {"assign", "raised"} /\ calls = <<>>)

\* C14: reset_csv leaves every row in its place with its person, area,
\* activity, frequency, effort and eligible people, makes the date of every
\* row absent, and leaves the two leading lines of the file as they were.
C14_ResetFrame ==
    [][pc' = "reset_done" =>
          /\ csv_top' = csv_top
          /\ DOMAIN csv' = DOMAIN csv
          /\ \A i \in DOMAIN csv : csv'[i] = [csv[i] EXCEPT !.Last = NaNDate]]_vars

\* the reset wiped the table of a catalog with two rows of different
\* persons; the file has no date left
C14_Witness ==
    /\ pc = "reset_done"
    /\ Len(csv) = 2
    /\ csv[1].Assigned = "Alice"
    /\ csv[2].Assigned = "Bob"
    /\ \A i \in DOMAIN csv : df[i].Last = EmptyStr /\ DateAbsent(csv[i])

-----------------------------------------------------------------------------
(* Vocabulary of the properties about the notes *)

\* the calls of a log made for person p
PersonCalls(cs, p) == SelectSeq(cs, LAMBDA c : c.person = p)

\* the operations of the calls of a log made for person p
PersonOps(cs, p) == [k \in DOMAIN PersonCalls(cs, p) |-> PersonCalls(cs, p)[k].op]

\* the log holds a complete reconcile of the note of p: the children were
\* added and committed
Reconciled(cs, p) ==
    LET pcs == PersonCalls(cs, p) IN
    /\ Len(pcs) >= 2
    /\ pcs[Len(pcs) - 1].op = "add_children"
    /\ pcs[Len(pcs)].op = "commit"
    /\ \A k \in DOMAIN pcs : pcs[k].ok

\* the text of the parent of an item: "" for a top-level item, "?" for a
\* parent that is not in the list
ParentText(items, it) ==
    IF it.parent = NoParent THEN ""
    ELSE IF \E h \in DOMAIN items : items[h].id = it.parent
         THEN items[CHOOSE h \in DOMAIN items : items[h].id = it.parent].text
         ELSE "?"

\* the list without the identities: parent text and text of every item
Structure(items) ==
    [k \in DOMAIN items |-> <<ParentText(items, items[k]), items[k].text>>]

NoDuplicate(items) ==
    \A j, k \in DOMAIN items : j # k => Structure(items)[j] # Structure(items)[k]

\* C15: when two runs in succession both reconcile the note of a person
\* with the same tasks, the note has after the second run the structure it
\* had after the first, without a duplicated header or child, whatever the
\* note held before the first run.
C15_ReconcileIdempotent ==
    \A p \in People :
        (/\ pc \in Stopped
         /\ Reconciled(prev.calls, p)
         /\ Reconciled(calls, p)
         /\ p_tasks(prev.push, p) = p_tasks(tasks_to_push, p))
        => /\ Structure(store[p].items) = Structure(prev.store[p].items)
           /\ NoDuplicate(store[p].items)

\* Alice's note was reconciled twice with the same two tasks of one area;
\* the items of the second run are new ones
C15_Witness ==
    /\ pc = "exit"
    /\ Reconciled(prev.calls, "Alice")
    /\ Reconciled(calls, "Alice")
    /\ p_tasks(prev.push, "Alice") = p_tasks(tasks_to_push, "Alice")
    /\ Len(p_tasks(tasks_to_push, "Alice")) = 2
    /\ Len(store["Alice"].items) = 3
    /\ ids(store["Alice"].items) \cap ids(prev.store["Alice"].items) = {}

\* the phases of the staged protocol, in order
StagedPhases == <<"clear", "commit", "add_headers", "commit", "add_children", "commit">>

\* the operations made on the note of p after it was found or created
Phases(cs, p) == SelectSeq(PersonOps(cs, p), LAMBDA op : op \notin {"find", "create"})

IsPrefix(s, t) == Len(s) <= Len(t) /\ \A k \in DOMAIN s : s[k] = t[k]

\* every child of the list has its header in the list
NoOrphan(items) ==
    \A k \in DOMAIN items :
        items[k].parent # NoParent =>
            \E h \in DOMAIN items :
                items[h].id = items[k].parent /\ items[h].parent = NoParent

\* every child in the client's copy of the note has a header the store holds
ParentsCommitted(p) ==
    \A k \in DOMAIN keep[p].items :
        keep[p].items[k].parent # NoParent =>
            keep[p].items[k].parent \in ids(store[p].items)

\* C16: the operations on a person's note follow the order clear, commit,
\* headers, commit, children, commit; a child is only ever created under a
\* header the store already holds; no note of the store has an orphan.
C16_StagedProtocol ==
    \A p \in People :
        /\ IsPrefix(Phases(calls, p), StagedPhases)
        /\ ParentsCommitted(p)
        /\ NoOrphan(store[p].items)

\* the note of p was looked up and cleared by the run
Visited(cs, p) ==
    /\ Len(PersonOps(cs, p)) >= 2
    /\ PersonOps(cs, p)[1] = "find"
    /\ \E k \in DOMAIN PersonOps(cs, p) : PersonOps(cs, p)[k] = "clear"

\* C17: for a person without note title no Keep call is made and the note
\* is never changed; at the end of the run the note of every person with a
\* title and a pushed task was looked up and cleared for the rebuild; the
\* file has today's date for every pushed task, the skipped person's too.
C17_SkipWithoutTitle ==
    /\ [](\A p \in People \ environ : PersonCalls(calls, p) = <<>>)
    /\ [][\A p \in People \ environ : store'[p] = store[p]]_vars
    /\ [](pc = "exit" =>
            \A k \in DOMAIN tasks_to_push :
                LET p == tasks_to_push[k].person IN
                /\ csv[tasks_to_push[k].original_index].Last = isoformat(today)
                /\ p \in environ => Visited(calls, p))

\* Alice has a pushed task and no title and was skipped; the note of Bob,
\* after her in the loop, was looked up and cleared
C17_Witness ==
    /\ pc = "exit"
    /\ environ = {"Bob"}
    /\ \E k \in DOMAIN tasks_to_push : tasks_to_push[k].person = "Alice"
    /\ Visited(calls, "Bob")
    /\ store["Alice"] = StaleNote(TRUE)

\* the run made the items of the list
MadeByThisRun(items) ==
    \A k \in DOMAIN items : items[k].id[1] = today /\ items[k].id[2] = run_no

\* C18: after a run whose sync went through without a failed call, the note
\* of every person of the universe with a title holds only items of this run.
C18_ViewRebuilt ==
    (pc = "exit" /\ \A c \in DOMAIN calls : calls[c].ok) =>
        \A p \in all_people(csv) \cap environ : MadeByThisRun(store[p].items)

-----------------------------------------------------------------------------
(* Properties of repeated runs *)

\* the entries of a push list
Entries(tasks) == {tasks[k] : k \in DOMAIN tasks}

\* the run is a second run of the day, on the file the run before saved,
\* and has its table and push list ready
SecondRunReady == run_no > 1 /\ pc = "save" /\ prev.pc \in {"exit", "auth_failed"}

\* C19: a second run of the day on the file saved by the first run arrives
\* at the table the file holds already and at the push list of the first
\* run, on a reset day as on any other day.
C19_RerunIdempotent ==
    SecondRunReady => (to_csv(df) = csv /\ Entries(tasks_to_push) = Entries(prev.push))

\* the date of the file's row is the day d of a reset day on which the runs
\* of this model pushed the row
PushedOnResetDay(row, d) ==
    /\ row.Last = isoformat(d)
    /\ d >= 0
    /\ d < today
    /\ weekday(d) = START_OF_WEEK_DAY

\* C20: with one run on every day, a row with a person that was pushed on
\* reset day d is pushed on every later reset day if Weekly, on a reset day
\* iff it is 14 days after d if Fortnightly, iff it is 28 days after d if
\* Monthly, and on no other day; a Daily row with a person is pushed on
\* every day.
C20_Cadence ==
    (pc = "save" /\ HasPerson(df[1])) =>
        /\ IsDaily(csv[1]) => Pushed(1)
        /\ (~IsDaily(csv[1]) /\ ~is_monday) => ~Pushed(1)
        /\ \A d \in 0..LastCadenceDay :
              (is_monday /\ PushedOnResetDay(csv[1], d)) =>
                 /\ Frequency(csv[1]) = "weekly" => Pushed(1)
                 /\ Frequency(csv[1]) = "fortnightly" => (Pushed(1) <=> today - d = 14)
                 /\ Frequency(csv[1]) = "monthly" => (Pushed(1) <=> today - d = 28)

====
